---------------------------- MODULE Spec2Model ----------------------------
(***************************************************************************)
(* A state-machine model of the Patterns toolkit: the Table widget of      *)
(* js/table/table.js (configuration, chunked rendering, sorting, row and   *)
(* cell events), the is.Function predicate of js/typecheck.js and inherit  *)
(* of js/inherit.js.                                                       *)
(*                                                                         *)
(* The DOM is modelled by what the widget puts in it: the th cells and the *)
(* cloned rows of the header table, the rows of the body table (each row   *)
(* element belongs to one entry of _data and is named by that entry's      *)
(* index), the container the two tables hang in, and the delegated click   *)
(* handlers bound on container elements.  setTimeout is a FIFO queue of    *)
(* pending _insertData continuations.                                      *)
(***************************************************************************)
EXTENDS Integers, Sequences, FiniteSets, TLC

VARIABLES
    _element,     \* this._element: the jQuery collection, as a set of container ids
    _headers,     \* this._headers: sequence of column definitions
    _data,        \* this._data: sequence of row entries {row, data}
    undef,        \* names of the instance fields that are still undefined
    _callbacks,   \* this._callbacks: event names that have a row-level handler
    pinToBottom,  \* this._config.pinToBottom (0 stands for false)
    ths,          \* this._headerTable: the th cells of its thead row
    clones,       \* this._headerTable: the cloned rows in its tbody
    body,         \* this._bodyTable: the rows in its tbody, as indices into _data
    handlers,     \* delegated click handlers bound on containers, oldest first
    firstCall,    \* the firstCall flag in each cell generator's closure
    timers,       \* setTimeout queue: pending _insertData continuations
    height,       \* css height last set on the body container (0: never set)
    step,         \* what the last step was: "op", "event", "timer" (a continuation
                  \* of the render started last) or "stale timer" (an older one)
    err,          \* error raised by the last step ("none" if it returned)
    invoked,      \* callbacks the last step invoked, in order
    hist,         \* the last public operation and what it observed
    batches,      \* sizes of the batches run by the render started last
    loaded,       \* the array handed to the most recent data load
    isArgs,       \* is.Function: the argument list of the call
    isResult,     \* is.Function: "none" before the call, then its outcome
    inhArgs,      \* inherit: the definitions handed over and the method invoked
    inhResult     \* inherit: <<>> before the call, then what the call observed

tableVars == <<_element, _headers, _data, undef, _callbacks, pinToBottom, ths,
               clones, body, handlers, firstCall, timers, height,
               step, err, invoked, hist, batches, loaded>>
isVars == <<isArgs, isResult>>
inhVars == <<inhArgs, inhResult>>
vars == <<tableVars, isVars, inhVars>>

-----------------------------------------------------------------------------
(* Bounds of the model. *)

\* longest data array drawn from Values in the specification Spec
MaxRows == 2
\* most continuations pending at once in the specification SpecChunk
MaxPending == 2
\* longest argument list handed to is.Function
MaxArgs == 3

(* Program constants. *)
INSERT_BATCH_LIMIT == 500
MIN_TABLE_HEIGHT == 110

Min(a, b) == IF a < b THEN a ELSE b

-----------------------------------------------------------------------------
(* Values of the data column "a" and JavaScript's coercions of them. *)

Undefined == "<undefined>"
Values == {"B", "a"}

\* String( v ): the text of a value
JsString(v) == IF v = Undefined THEN "undefined" ELSE v

\* String.prototype.toLowerCase
ToLowerCase(str) == IF str = "B" THEN "b" ELSE str

\* The UTF-16 code units of the strings the model uses.
CodeUnits(str) ==
    CASE str = "10" -> <<49, 48>>
      [] str = "B" -> <<66>>
      [] str = "a" -> <<97>>
      [] str = "b" -> <<98>>
      [] str = "undefined" -> <<117, 110, 100, 101, 102, 105, 110, 101, 100>>

\* x < y on strings: the first differing code unit decides, a proper prefix is less
StringLess(x, y) ==
    LET cx == CodeUnits(x)
        cy == CodeUnits(y)
        n == Min(Len(cx), Len(cy))
        diff == {i \in 1..n : cx[i] # cy[i]}
    IN IF diff = {} THEN Len(cx) < Len(cy)
       ELSE LET i == CHOOSE k \in diff : \A j \in diff : k <= j
            IN cx[i] < cy[i]

\* Number( v ) || 0
ToNumberOrZero(v) == IF v = "10" THEN 10 ELSE 0

\* Boolean( v ) as 0 or 1: undefined is false, a non-empty string is true
ToBoolean(v) == IF v = Undefined THEN 0 ELSE 1

\* a[ column ]: the records carry the data column "a"; the button and link
\* columns "b" and "c" have no data, so reading them yields undefined
Field(rec, column) == IF column = "a" THEN rec.a ELSE Undefined

numberSort(column, a, b) ==
    ToNumberOrZero(Field(a, column)) - ToNumberOrZero(Field(b, column))

stringSort(column, a, b) ==
    LET aData == JsString(Field(a, column))
        bData == JsString(Field(b, column))
    IN IF StringLess(aData, bData) THEN -1
       ELSE IF StringLess(bData, aData) THEN 1 ELSE 0

caseInsensitiveSort(column, a, b) ==
    LET aData == ToLowerCase(JsString(Field(a, column)))
        bData == ToLowerCase(JsString(Field(b, column)))
    IN IF StringLess(aData, bData) THEN -1
       ELSE IF StringLess(bData, aData) THEN 1 ELSE 0

booleanSort(column, a, b) ==
    ToBoolean(Field(b, column)) - ToBoolean(Field(a, column))

SortModes == {"numberSort", "stringSort", "caseInsensitiveSort", "booleanSort"}

\* A comparator is a named sort method, possibly wrapped by Table.reverseSort.
Comparator(mode, reversed) == [mode |-> mode, reversed |-> reversed]

ApplyMode(mode, column, a, b) ==
    CASE mode = "numberSort" -> numberSort(column, a, b)
      [] mode = "stringSort" -> stringSort(column, a, b)
      [] mode = "caseInsensitiveSort" -> caseInsensitiveSort(column, a, b)
      [] mode = "booleanSort" -> booleanSort(column, a, b)

\* (a variant that hands the comparator back unchanged)
sameSort(sortFunc) == sortFunc
\* Table.reverseSort( sortFunc ): the comparator with its operands swapped
reverseSort(sortFunc) == [sortFunc EXCEPT !.reversed = ~@]

Compare(sortFunc, column, a, b) ==
    IF sortFunc.reversed THEN ApplyMode(sortFunc.mode, column, b, a)
    ELSE ApplyMode(sortFunc.mode, column, a, b)

-----------------------------------------------------------------------------
(* Array.prototype.sort with a consistent comparator, as a stable sort: the *)
(* result is ordered by the comparator and entries that compare equal keep  *)
(* their relative order.  The rank of a key is the number of distinct keys  *)
(* of the array that compare below it; the result lists the entries rank by *)
(* rank, each rank in array order.                                          *)

Keys(arr, column) == {Field(arr[k].data, column) : k \in 1..Len(arr)}

RECURSIVE ConcatRanks(_, _, _, _, _)
ConcatRanks(arr, column, rank, r, n) ==
    IF r >= n THEN <<>>
    ELSE SelectSeq(arr, LAMBDA e : rank[Field(e.data, column)] = r)
         \o ConcatRanks(arr, column, rank, r + 1, n)

\* the rank of each key of the array under the comparator
Rank(arr, sortFunc, column) ==
    LET keys == Keys(arr, column)
        rep == [w \in keys |->
                  arr[CHOOSE k \in 1..Len(arr) : Field(arr[k].data, column) = w].data]
    IN [w \in keys |->
          Cardinality({u \in keys : Compare(sortFunc, column, rep[u], rep[w]) < 0})]

\* (the ranks are drawn from a singleton so that they are computed once)
ArraySort(arr, sortFunc, column) ==
    CHOOSE sorted \in { ConcatRanks(arr, column, rank, 0, Cardinality(DOMAIN rank)) :
                          rank \in {Rank(arr, sortFunc, column)} } : TRUE

-----------------------------------------------------------------------------
(* Cell generators.  Each id names one generator function, that is one call *)
(* of Table.textCell, Table.buttonCell, Table.toggleButtonCell or           *)
(* Table.linkCell, with its own closure.                                    *)

Generators == {"text", "btn", "tgl", "lnk"}

\* the class of the element a generator puts in the cell ("" for plain text)
InnerClass(gen) ==
    CASE gen = "btn" -> "button"
      [] gen = "tgl" -> "button"
      [] gen = "lnk" -> "link"
      [] OTHER -> ""

\* generators that bind a delegated click handler on their first call
Registers(gen) == InnerClass(gen) # ""

Column(name, generator, sort) == [name |-> name, generator |-> generator, sort |-> sort]

DEFAULT_SORT == "caseInsensitiveSort"

\* The header lists a caller may supply (defaults already merged in): a text
\* column and a toggle button, or a link and two columns of buttons made by
\* the same generator.
HeaderLists ==
    { <<Column("a", "text", DEFAULT_SORT), Column("b", "tgl", "false")>>,
      <<Column("a", "lnk", "stringSort"), Column("b", "btn", "false"),
        Column("c", "btn", "booleanSort")>> }

\* the columns sortOnColumn is called for: the data column, which every header
\* list shows, and a column that only one header list shows
SortColumns == {"a", "c"}
\* the comparators handed to sortOnColumn by a caller (a click on a header
\* hands over the comparator of the header)
CallerSortModes == {"numberSort", "stringSort"}

-----------------------------------------------------------------------------
(* The table's state as one record, so that the private procedures compose. *)

NoRow == [built |-> FALSE, cells |-> <<>>, selected |-> FALSE]

Cur ==
    [element |-> _element, headers |-> _headers, data |-> _data, undef |-> undef,
     callbacks |-> _callbacks, pinToBottom |-> pinToBottom, ths |-> ths,
     clones |-> clones, body |-> body, handlers |-> handlers,
     firstCall |-> firstCall, timers |-> timers, height |-> height,
     err |-> "none", invoked |-> <<>>, batches |-> batches, loaded |-> loaded]

Commit(s) ==
    /\ _element' = s.element
    /\ _headers' = s.headers
    /\ _data' = s.data
    /\ undef' = s.undef
    /\ _callbacks' = s.callbacks
    /\ pinToBottom' = s.pinToBottom
    /\ ths' = s.ths
    /\ clones' = s.clones
    /\ body' = s.body
    /\ handlers' = s.handlers
    /\ firstCall' = s.firstCall
    /\ timers' = s.timers
    /\ height' = s.height
    /\ err' = s.err
    /\ invoked' = s.invoked
    /\ batches' = s.batches
    /\ loaded' = s.loaded

Throw(s, error) == [s EXCEPT !.err = error]

\* ids of the entries of an array, in array order
RowIDs(arr) == [k \in 1..Len(arr) |-> arr[k].data.rowID]

-----------------------------------------------------------------------------
(* Private procedures of table.js. *)

\* $( target ): the elements a selector or element resolves to
\* ("#grid" names the one container of the page, "#missing" matches nothing)
Targets == {"#grid", "#missing"}
Resolve(target) == IF target = "#grid" THEN {"grid"} ELSE {}

\* a jQuery object is an object, and every object is truthy
Truthy(jq) == TRUE

_setHeaders(s, headers) == [s EXCEPT !.headers = headers]

_setCallbacks(s, callbacks) == [s EXCEPT !.callbacks = @ \cup callbacks]

\* (a variant that numbers the rows from 0)
rowIDFromZero(i) == i
\* datum[ Table.rowIDColumn ] for the entry at index i (counted from 0)
rowID(i) == i + 1

_setData(s, data) ==
    [s EXCEPT !.data = [k \in 1..Len(data) |->
                           [row |-> NoRow,
                            data |-> [rowID |-> rowID(k - 1), a |-> data[k].a]]],
              !.undef = @ \ {"_data"},
              !.loaded = data]

\* config.has holds the keys of the object merged into this._config
_mergeConfig(s, config) ==
    IF "pinToBottom" \in config.has THEN [s EXCEPT !.pinToBottom = config.pinToBottom]
    ELSE s

\* The cells _createCell builds for one row, a cell per header in header order.
_createCell(header) == [name |-> header.name, generator |-> header.generator]

NewRow(headers) ==
    [built |-> TRUE, cells |-> [j \in 1..Len(headers) |-> _createCell(headers[j])],
     selected |-> FALSE]

\* The handlers bound while a row is built.  A generator whose firstCall flag
\* is set binds one handler on table._element, for the column it is first
\* called for: the first column of the header list that uses it.  Binding on
\* an empty collection binds nothing; the flag is cleared either way.
DueColumns(headers, first) ==
    SelectSeq([j \in 1..Len(headers) |-> j],
              LAMBDA j : /\ Registers(headers[j].generator)
                         /\ first[headers[j].generator]
                         /\ \A i \in 1..(j - 1) :
                                headers[i].generator # headers[j].generator)

Bound(headers, first, element) ==
    LET due == DueColumns(headers, first)
    IN IF element = {} THEN <<>>
       ELSE [i \in 1..Len(due) |->
               [on |-> element, column |-> headers[due[i]].name,
                class |-> InnerClass(headers[due[i]].generator),
                generator |-> headers[due[i]].generator]]

AfterFirstCall(headers, first) ==
    [g \in Generators |->
        first[g] /\ ~(\E j \in 1..Len(headers) : headers[j].generator = g)]

\* (a variant whose loop has no batch limit)
BatchSizeUnbounded(start, n) == IF start < n THEN n - start ELSE 0
\* the number of rows the loop of _insertData( start ) handles, n entries loaded
BatchSize(start, n) == IF start < n THEN Min(INSERT_BATCH_LIMIT, n - start) ELSE 0

\* (a variant that prepends each row instead of appending it)
Prepended(start, i) == [k \in 1..i |-> start + i + 1 - k]
\* the rows the loop appends to the tbody, in the order it appends them
Appended(start, i) == [k \in 1..i |-> start + k]

\* _insertData( start ); fresh says whether the call belongs to the render
\* started last (it only feeds the batches record).
_insertData(s, start, fresh) ==
    LET n == Len(s.data)
        i == BatchSize(start, n)
        batch == (start + 1)..(start + i)
        builds == \E k \in batch : ~s.data[k].row.built
        data1 == [k \in 1..n |->
                    IF k \in batch /\ ~s.data[k].row.built
                    THEN [s.data[k] EXCEPT !.row = NewRow(s.headers)]
                    ELSE s.data[k]]
        s1 == [s EXCEPT
                 !.data = data1,
                 !.body = SelectSeq(@, LAMBDA x : x \notin batch)
                          \o Appended(start, i),
                 !.handlers = IF builds
                              THEN @ \o Bound(s.headers, s.firstCall, s.element)
                              ELSE @,
                 !.firstCall = IF builds THEN AfterFirstCall(s.headers, @) ELSE @,
                 !.batches = IF fresh THEN Append(@, i) ELSE @]
    IN IF start >= n
       THEN Throw(s1, "TypeError")   \* this._data[ start ] is undefined
       ELSE [s1 EXCEPT
               !.clones = Append(@, [cells |-> data1[start + 1].row.cells,
                                     selected |-> data1[start + 1].row.selected]),
               !.timers = IF start + i < n
                          THEN Append(@, [start |-> start + i, stale |-> ~fresh])
                          ELSE @]

_updateTable(s) ==
    LET s1 == [s EXCEPT
                 !.undef = @ \ {"_headerTable", "_bodyTable"},
                 !.ths = [j \in 1..Len(s.headers) |->
                            [name |-> s.headers[j].name, sort |-> s.headers[j].sort,
                             class |-> ""]],
                 !.clones = <<>>,
                 !.body = <<>>,
                 !.timers = [k \in 1..Len(@) |-> [@[k] EXCEPT !.stale = TRUE]],
                 !.batches = <<>>]
    IN IF Len(s1.data) > 0 THEN _insertData(s1, 0, TRUE) ELSE s1

\* The two tables are in the page when they hang in a container.
InPage(s) == "_bodyTable" \notin s.undef /\ s.element # {}

InBody(s, k) == \E p \in 1..Len(s.body) : s.body[p] = k

\* this._element.find( 'tr.selected' ).removeClass( 'selected' ): the rows of
\* the body table and of the header table, when the tables hang in _element
ClearSelected(s) ==
    IF ~InPage(s) THEN s
    ELSE [s EXCEPT
            !.data = [k \in 1..Len(@) |->
                        IF @[k].row.selected /\ InBody(s, k)
                        THEN [@[k] EXCEPT !.row.selected = FALSE]
                        ELSE @[k]],
            !.clones = [c \in 1..Len(@) |-> [@[c] EXCEPT !.selected = FALSE]]]

\* the callbacks a step invokes: the row-level callback of an event, or the
\* click callback a generator was made with
RowCallback(eventName) == [kind |-> "row", of |-> eventName]
ColumnCallback(gen) == [kind |-> "column", of |-> gen]

\* _onRowEvent for an event on body row p; onRow says whether event.target is
\* the row or one of its td cells (and not an element inside a cell).
_onRowEvent(s, eventName, p, onRow) ==
    IF ~onRow THEN s
    ELSE LET k == s.body[p]
             s1 == IF eventName = "click"
                   THEN [ClearSelected(s) EXCEPT !.data[k].row.selected = TRUE]
                   ELSE s
         IN IF eventName \in s1.callbacks
            THEN [s1 EXCEPT !.invoked = Append(@, RowCallback(eventName))]
            ELSE s1

\* The delegated handlers a click on the element inside a cell reaches: those
\* bound on the container for the cell's column and the element's class.
Matching(s, cell) ==
    SelectSeq(s.handlers,
              LAMBDA h : /\ h.on \cap s.element # {}
                         /\ h.column = cell.name
                         /\ h.class = InnerClass(cell.generator))

\* _columnCallback, once per matching handler, for the element in cell j of
\* body row p
_columnCallback(s, p, j) ==
    LET k == s.body[p]
        hit == Matching(s, s.data[k].row.cells[j])
    IN [s EXCEPT !.invoked =
           @ \o [h \in 1..Len(hit) |-> ColumnCallback(hit[h].generator)]]

\* _columnCallback for the element in cell j of cloned row c of the header
\* table: a clone carries no 'data', so $row.data( 'data' ).data throws
_columnCallbackOnClone(s, c, j) ==
    IF Matching(s, s.clones[c].cells[j]) = <<>> THEN s
    ELSE Throw(s, "TypeError")

BODY_CONTAINER_CLASS == "pl-table-body-container"
RESIZE_CONTAINER_CLASS == "lw-table-body-container"
\* $container.offset().top of the body container in the page
ContainerTop == 40

\* _onWindowResized with $( window ).height() = win; a procedure that follows
\* a throw does not run
_onWindowResized(s, win) ==
    IF s.err # "none" \/ s.pinToBottom = 0 THEN s
    ELSE IF "_bodyTable" \in s.undef THEN Throw(s, "TypeError")
    ELSE IF RESIZE_CONTAINER_CLASS # BODY_CONTAINER_CLASS
    THEN Throw(s, "TypeError")  \* closest() finds nothing, offset() is undefined
    ELSE LET newHeight == win - ContainerTop - s.pinToBottom
         IN [s EXCEPT !.height = IF newHeight > MIN_TABLE_HEIGHT THEN newHeight
                                 ELSE MIN_TABLE_HEIGHT]

-----------------------------------------------------------------------------
(* Public operations of table.js. *)

setElement(s, element) ==
    LET s1 == [s EXCEPT !.element = Resolve(element)]
    IN IF ~Truthy(s1.element) THEN Throw(s1, "Error") ELSE s1

\* opts.has holds the keys the options object carries
setOpts(s, opts, win) ==
    LET s1 == IF "headers" \in opts.has THEN _setHeaders(s, opts.headers) ELSE s
        s2 == IF "callbacks" \in opts.has THEN _setCallbacks(s1, opts.callbacks) ELSE s1
        s3 == IF "data" \in opts.has THEN _setData(s2, opts.data) ELSE s2
        s4 == _mergeConfig(s3, opts)
    IN _onWindowResized(_updateTable(s4), win)

setHeaders(s, headers) == _updateTable(_setHeaders(s, headers))

setData(s, data, win) == _onWindowResized(_updateTable(_setData(s, data)), win)

rebuild(s) ==
    _updateTable([s EXCEPT !.data = [k \in 1..Len(@) |-> [@[k] EXCEPT !.row = NoRow]]])

\* whether the th of the column carries the class ascending-sort
HasAscending(s, column) ==
    \E j \in 1..Len(s.ths) : s.ths[j].name = column /\ s.ths[j].class = "ascending-sort"

sortOnColumn(s, column, sortMode, win) ==
    IF "_headerTable" \in s.undef \/ "_data" \in s.undef
    THEN Throw(s, "TypeError")   \* this._headerTable or this._data is undefined
    ELSE LET descend == HasAscending(s, column)
             sortFunc == IF descend THEN reverseSort(Comparator(sortMode, FALSE))
                         ELSE Comparator(sortMode, FALSE)
             s1 == _updateTable([s EXCEPT !.data = ArraySort(@, sortFunc, column)])
             s2 == [s1 EXCEPT !.ths = [j \in 1..Len(@) |->
                        IF @[j].name = column
                        THEN [@[j] EXCEPT !.class = IF descend THEN "descending-sort"
                                                    ELSE "ascending-sort"]
                        ELSE @[j]]]
         IN _onWindowResized(s2, win)

-----------------------------------------------------------------------------
(* The inputs of the operations. *)

SeqsUpTo(S, n) == UNION {[1..m -> S] : m \in 0..n}

\* the data arrays of the specification Spec: every array of at most MaxRows
\* records over Values
DataSets == SeqsUpTo([a : Values], MaxRows)

\* the data arrays of the specification SpecChunk: one array per length, its
\* values cycling through Values
ValueCycle == <<"B", "a">>
ChunkArray(n) == [k \in 1..n |-> [a |-> ValueCycle[(k % 2) + 1]]]
ChunkLengths == {0, 2, 501, 1000, 1200}
ChunkDataSets == {ChunkArray(n) : n \in ChunkLengths}

WindowHeights == {100, 400}
PinOffsets == {30}
RowEvents == {"click", "dblclick"}
CallbackSets == {RowEvents}

Opts(has, headers, callbacks, data, pin) ==
    [has |-> has, headers |-> headers, callbacks |-> callbacks, data |-> data,
     pinToBottom |-> pin]

\* the options objects handed to setOpts, by the keys they carry; a key that
\* is absent reads undefined
OptsBundles(keySets, dataSets) ==
    UNION { { Opts(has, h, c, d, p) :
                h \in IF "headers" \in has THEN HeaderLists ELSE {<<>>},
                c \in IF "callbacks" \in has THEN CallbackSets ELSE {{}},
                d \in IF "data" \in has THEN dataSets ELSE {<<>>},
                p \in IF "pinToBottom" \in has THEN PinOffsets ELSE {0} } :
            has \in keySets }

SmallOpts == OptsBundles({{"headers", "data"}}, DataSets)
CallbackOpts == OptsBundles({{"callbacks"}}, {})

-----------------------------------------------------------------------------
(* The state after construction and the steps. *)

Hist(op) ==
    [op |-> op, target |-> "", column |-> "", mode |-> "", generator |-> "", row |-> 0,
     win |-> 0,
     loads |-> FALSE, reheads |-> FALSE, clean |-> FALSE, descend |-> FALSE,
     again |-> FALSE]

\* the instance the constructor starts from, bound by setElement
Blank(element) ==
    setElement(
        [element |-> {}, headers |-> <<>>, data |-> <<>>,
         undef |-> {"_headers", "_data", "_headerTable", "_bodyTable"},
         callbacks |-> {}, pinToBottom |-> 0, ths |-> <<>>, clones |-> <<>>,
         body |-> <<>>, handlers |-> <<>>,
         firstCall |-> [g \in Generators |-> TRUE], timers |-> <<>>, height |-> 0,
         err |-> "none", invoked |-> <<>>, batches |-> <<>>, loaded |-> <<>>],
        element)

\* new Table( element ) and new Table( element, opts )
NewTable(element) == Blank(element)
NewTableWith(element, opts, win) == setOpts(Blank(element), opts, win)

\* the table is in state s
Is(s) ==
    /\ _element = s.element
    /\ _headers = s.headers
    /\ _data = s.data
    /\ undef = s.undef
    /\ _callbacks = s.callbacks
    /\ pinToBottom = s.pinToBottom
    /\ ths = s.ths
    /\ clones = s.clones
    /\ body = s.body
    /\ handlers = s.handlers
    /\ firstCall = s.firstCall
    /\ timers = s.timers
    /\ height = s.height
    /\ err = s.err
    /\ invoked = s.invoked
    /\ batches = s.batches
    /\ loaded = s.loaded
    /\ step = "op"

\* is.Function and inherit have not been called
IsIdle == isArgs = <<>> /\ isResult = "none" /\ inhArgs = <<>> /\ inhResult = <<>>

\* a public operation that leaves the table in state s
Op(s, h) == Commit(s) /\ step' = "op" /\ hist' = h /\ UNCHANGED <<isVars, inhVars>>

\* an event handler that leaves the table in state s
Event(s, h) == Commit(s) /\ step' = "event" /\ hist' = h /\ UNCHANGED <<isVars, inhVars>>

\* $( window ).height() is read only by a table that is pinned
Reads(win, pin) == pin # 0 \/ \A w \in WindowHeights : win <= w

\* operations that start a render wait while MaxPending continuations are pending
MayRender == Len(timers) < MaxPending

\* setElement is called before the table is first built: a table is created
\* once per container element
SetElement(target) ==
    /\ "_bodyTable" \in undef
    /\ Op(setElement(Cur, target), [Hist("setElement") EXCEPT !.target = target])

SetOpts(opts, win) ==
    /\ MayRender
    /\ Reads(win, IF "pinToBottom" \in opts.has THEN opts.pinToBottom ELSE pinToBottom)
    /\ Op(setOpts(Cur, opts, win),
          [Hist("setOpts") EXCEPT !.win = win,
                                  !.loads = "data" \in opts.has,
                                  !.reheads = "headers" \in opts.has,
                                  !.clean = timers = <<>>])

SetHeaders(headers) ==
    /\ MayRender
    /\ Op(setHeaders(Cur, headers),
          [Hist("setHeaders") EXCEPT !.reheads = TRUE, !.clean = timers = <<>>])

SetData(data, win) ==
    /\ MayRender
    /\ Reads(win, pinToBottom)
    /\ Op(setData(Cur, data, win),
          [Hist("setData") EXCEPT !.win = win, !.loads = TRUE, !.clean = timers = <<>>])

Rebuild ==
    /\ MayRender
    /\ Op(rebuild(Cur), [Hist("rebuild") EXCEPT !.clean = timers = <<>>])

SortOnColumn(column, sortMode, win) ==
    /\ MayRender
    /\ Reads(win, pinToBottom)
    /\ LET s == sortOnColumn(Cur, column, sortMode, win)
       IN Op(s, [Hist("sortOnColumn") EXCEPT
                   !.column = column,
                   !.mode = sortMode,
                   !.win = win,
                   !.clean = timers = <<>>,
                   !.descend = HasAscending(Cur, column),
                   !.again = /\ hist.op = "sortOnColumn"
                             /\ hist.column = column
                             /\ hist.mode = sortMode
                             /\ ~hist.descend
                             /\ "_data" \notin undef])

\* a click on the th of a sortable column
HeaderClick(j, win) ==
    /\ InPage(Cur)
    /\ j \in 1..Len(ths)
    /\ ths[j].sort # "false"
    /\ SortOnColumn(ths[j].name, ths[j].sort, win)

\* the window is resized to height win
WindowResize(win) ==
    /\ Reads(win, pinToBottom)
    /\ Event(_onWindowResized(Cur, win), [Hist("resize") EXCEPT !.win = win])

\* a click or double click on body row p, on the row or one of its cells
RowEvent(eventName, p) ==
    /\ InPage(Cur)
    /\ p \in 1..Len(body)
    /\ Event(_onRowEvent(Cur, eventName, p, TRUE),
             [Hist(eventName) EXCEPT !.row = IF eventName = "click" THEN body[p] ELSE 0])

\* a click on the button or link inside cell j of body row p: the event
\* reaches the row handler on the body table, then the container's handlers
InnerClick(p, j) ==
    /\ InPage(Cur)
    /\ p \in 1..Len(body)
    /\ j \in 1..Len(_data[body[p]].row.cells)
    /\ InnerClass(_data[body[p]].row.cells[j].generator) # ""
    /\ Event(_columnCallback(_onRowEvent(Cur, "click", p, FALSE), p, j),
             [Hist("innerClick") EXCEPT
                !.column = _data[body[p]].row.cells[j].name,
                !.generator = _data[body[p]].row.cells[j].generator])

\* a click on the button or link inside cell j of cloned row c of the header table
CloneInnerClick(c, j) ==
    /\ InPage(Cur)
    /\ c \in 1..Len(clones)
    /\ j \in 1..Len(clones[c].cells)
    /\ InnerClass(clones[c].cells[j].generator) # ""
    /\ Event(_columnCallbackOnClone(Cur, c, j), Hist("cloneClick"))

\* the oldest pending continuation runs
Timeout ==
    /\ timers # <<>>
    /\ Commit(_insertData([Cur EXCEPT !.timers = Tail(@)],
                          Head(timers).start, ~Head(timers).stale))
    /\ step' = IF Head(timers).stale THEN "stale timer" ELSE "timer"
    /\ UNCHANGED <<hist, isVars, inhVars>>

\* new Table( "#grid", { callbacks : ... } )
Init ==
    /\ \E opts \in CallbackOpts, win \in WindowHeights :
           Reads(win, 0) /\ Is(NewTableWith("#grid", opts, win))
    /\ hist = [Hist("new") EXCEPT !.target = "#grid"]
    /\ IsIdle

\* the steps of a page whose data arrays stay below one batch
Next ==
    \/ \E opts \in SmallOpts, win \in WindowHeights :
           SetOpts(opts, win)
    \/ \E headers \in HeaderLists : SetHeaders(headers)
    \/ \E data \in DataSets, win \in WindowHeights : SetData(data, win)
    \/ Rebuild
    \/ \E column \in SortColumns, sortMode \in CallerSortModes, win \in WindowHeights :
           SortOnColumn(column, sortMode, win)
    \/ \E j \in 1..Len(ths), win \in WindowHeights : HeaderClick(j, win)
    \/ \E eventName \in RowEvents, p \in 1..Len(body) : RowEvent(eventName, p)
    \/ \E p \in 1..Len(body) :
           \E j \in 1..Len(_data[body[p]].row.cells) : InnerClick(p, j)
    \/ \E c \in 1..Len(clones) :
           \E j \in 1..Len(clones[c].cells) : CloneInnerClick(c, j)

Spec == Init /\ [][Next]_vars

-----------------------------------------------------------------------------
(* A page whose data arrays span several batches: the renders are chunked   *)
(* and their continuations run as the timers fire.                          *)

ChunkHeaderLists == {h \in HeaderLists : Len(h) = 2}
ChunkSortColumns == {"a"}
ChunkSortModes == {"stringSort"}

\* options that replace the headers and the data at once
ChunkOpts ==
    {opts \in OptsBundles({{"headers", "data"}}, ChunkDataSets) :
        opts.headers \in ChunkHeaderLists}

NextChunk ==
    \/ \E opts \in ChunkOpts, win \in WindowHeights : SetOpts(opts, win)
    \/ \E headers \in ChunkHeaderLists : SetHeaders(headers)
    \/ \E data \in ChunkDataSets, win \in WindowHeights : SetData(data, win)
    \/ Rebuild
    \/ \E column \in ChunkSortColumns, sortMode \in ChunkSortModes,
          win \in WindowHeights :
           SortOnColumn(column, sortMode, win)
    \/ Timeout

SpecChunk == Init /\ [][NextChunk]_vars

-----------------------------------------------------------------------------
(* A table constructed without options, on a container that is in the page  *)
(* or on a selector that matches nothing, and bound again before its first  *)
(* build.                                                                   *)

BindOpts == OptsBundles({{"callbacks"}, {"pinToBottom"}}, {})

InitBind ==
    /\ \E target \in Targets :
          /\ Is(NewTable(target))
          /\ hist = [Hist("new") EXCEPT !.target = target]
    /\ IsIdle

NextBind ==
    \/ \E target \in Targets : SetElement(target)
    \/ \E opts \in BindOpts, win \in WindowHeights : SetOpts(opts, win)
    \/ \E headers \in HeaderLists : SetHeaders(headers)
    \/ \E data \in DataSets, win \in WindowHeights : SetData(data, win)
    \/ \E win \in WindowHeights : WindowResize(win)
    \/ \E eventName \in RowEvents, p \in 1..Len(body) : RowEvent(eventName, p)

SpecBind == InitBind /\ [][NextBind]_vars

-----------------------------------------------------------------------------
(* is.Function of typecheck.js. *)

\* the text of a value, as its characters
FunctionText == <<"f", "u", "n", "c", "t", "i", "o", "n", "(", ")", "{", "}">>
FunctionalText == <<"f", "u", "n", "c", "t", "i", "o", "n", "a", "l">>
FunctionWordsText == <<"f", "u", "n", "c", "t", "i", "o", "n", " ", "x">>
ObjectText == <<"[", "o", "b", "j", "e", "c", "t", " ", "O", "b", "j", "e", "c", "t", "]">>
NoToString == <<"<no toString>">>

\* The values handed to is.Function: whether the value can be called, whether
\* it is an instance of this window's Function, and what item.toString()
\* returns (null and undefined have no toString).
JsValue(name, callable, instance, text) ==
    [name |-> name, callable |-> callable, instanceOfFunction |-> instance,
     text |-> text]

IsValues ==
    { JsValue("function(){}", TRUE, TRUE, FunctionText),
      JsValue("function of another window", TRUE, FALSE, FunctionText),
      JsValue("null", FALSE, FALSE, NoToString),
      JsValue("undefined", FALSE, FALSE, NoToString),
      JsValue("{}", FALSE, FALSE, ObjectText),
      JsValue("'functional'", FALSE, FALSE, FunctionalText),
      JsValue("'function x'", FALSE, FALSE, FunctionWordsText) }

\* \w of a regular expression, over the characters of the texts above
WordChars ==
    {"a", "b", "c", "e", "f", "i", "j", "l", "n", "o", "t", "u", "x", "O"}

\* /^function\b/.test( text )
StartsWithFunctionWord(text) ==
    /\ Len(text) >= 8
    /\ SubSeq(text, 1, 8) = SubSeq(FunctionText, 1, 8)
    /\ (Len(text) = 8 \/ text[9] \notin WordChars)

\* the loop of is.Function from argument i on
RECURSIVE ScanArgs(_, _)
ScanArgs(args, i) ==
    IF i > Len(args) THEN "true"
    ELSE LET item == args[i]
         IN IF item.instanceOfFunction THEN ScanArgs(args, i + 1)
            ELSE IF item.text = NoToString THEN "TypeError"
            ELSE IF StartsWithFunctionWord(item.text) THEN ScanArgs(args, i + 1)
            ELSE "false"

is_Function(args) == ScanArgs(args, 1)

ArgLists == SeqsUpTo(IsValues, MaxArgs)

IsFunctionCall(args) ==
    /\ isArgs' = args
    /\ isResult' = is_Function(args)
    /\ UNCHANGED <<tableVars, inhVars>>

NextIs == \E args \in ArgLists : IsFunctionCall(args)

SpecIs == Init /\ [][NextIs]_vars

-----------------------------------------------------------------------------
(* inherit of inherit.js. *)

\* The parentheses of line 37, var _callsSuper = /xyz/.test( function(){ _xyz_
\* }).toString() ) ? ... : ...; in source order: test( function( ) ) toString( ) )
Line37Parens == <<"(", "(", ")", ")", "(", ")", ")">>

\* the nesting depth after the first k parentheses
RECURSIVE Depth(_, _)
Depth(parens, k) ==
    IF k = 0 THEN 0
    ELSE Depth(parens, k - 1) + (IF parens[k] = "(" THEN 1 ELSE -1)

\* a script parses only if no parenthesis closes what was not opened
Balanced(parens) ==
    /\ \A k \in 1..Len(parens) : Depth(parens, k) >= 0
    /\ Depth(parens, Len(parens)) = 0

\* what loading inherit.js leaves: a script that does not parse defines nothing
InheritScript == IF Balanced(Line37Parens) THEN "loaded" ELSE "SyntaxError"

\* The members of a prototype, by name.  A member of the base is absent, a
\* value that is not callable, or a method; a member of the derived definition
\* is absent, a value, a method, or a method whose source mentions _super.
MemberNames == {"m", "n"}
BaseKinds == {"absent", "value", "method"}
DerivedKinds == {"absent", "value", "method", "upcall"}
BasePrototypes == [MemberNames -> BaseKinds]
DerivedPrototypes == [MemberNames -> DerivedKinds]

\* the values this._super may hold before the call
PriorSupers == {Undefined, "outer"}

IsCallable(kind) == kind \in {"method", "upcall"}

\* _getPrototype( clas ): the return statement ends at the line break, so the
\* expression below it is never evaluated and the function returns undefined
_getPrototype(clas) == Undefined

\* _overriding( name, supr, derv ): again return followed by a line break
_overriding(name, supr, derv) == Undefined

\* _callsSuper.test( dervFunc ): /\b_super\b/ against the source of the member
_callsSuper(kind) == kind = "upcall"

\* a value in a condition: undefined is falsy
IsTruthy(v) == v # Undefined

\* the member base.prototype[ name ], as the value bound to this._super
BaseMember(name) == IF name = "m" THEN "base.prototype.m" ELSE "base.prototype.n"

\* inherit( base, derived ): the members put on proto, each wrapped by
\* _superCaller or taken as it is; assigning a property of undefined throws
inherit(supr, derv) ==
    LET proto == _getPrototype(supr)
    IN IF proto = Undefined THEN "TypeError"
       ELSE [name \in {n \in MemberNames : derv[n] # "absent"} |->
               [kind |-> derv[name],
                wrapped |-> /\ IsTruthy(_overriding(name, supr, derv))
                            /\ _callsSuper(derv[name])]]

\* what a call observed: how it ended, what this._super held while the derived
\* body ran and what it holds afterwards
Observed(outcome, superDuring, superAfter) == <<outcome, superDuring, superAfter>>

\* instance[ name ]() with this._super = prior: the wrapper of _superCaller
\* binds this._super to the base member while the derived body runs and puts
\* the old value back
Invoke(clas, name, prior) ==
    IF name \notin DOMAIN clas \/ ~IsCallable(clas[name].kind)
    THEN Observed("TypeError", Undefined, prior)
    ELSE Observed("returned",
                  IF clas[name].wrapped THEN BaseMember(name) ELSE prior, prior)

\* var D = inherit( base, derived ); then a call of the method on an instance
InheritAndInvoke(supr, derv, name, prior) ==
    IF InheritScript # "loaded"
    THEN Observed("ReferenceError", Undefined, prior)
    ELSE LET clas == inherit(supr, derv)
         IN IF clas = "TypeError"
            THEN Observed("TypeError", Undefined, prior)
            ELSE Invoke(clas, name, prior)

InheritCall(supr, derv, name, prior) ==
    /\ inhArgs' = <<supr, derv, name, prior>>
    /\ inhResult' = InheritAndInvoke(supr, derv, name, prior)
    /\ UNCHANGED <<tableVars, isVars>>

NextInherit ==
    \E supr \in BasePrototypes, derv \in DerivedPrototypes,
       name \in MemberNames, prior \in PriorSupers :
        InheritCall(supr, derv, name, prior)

SpecInherit == Init /\ [][NextInherit]_vars

-----------------------------------------------------------------------------
(* Properties. *)

RECURSIVE Sum(_)
Sum(seq) == IF seq = <<>> THEN 0 ELSE Head(seq) + Sum(Tail(seq))

CeilDiv(n, d) == (n + d - 1) \div d

Reverse(seq) == [k \in 1..Len(seq) |-> seq[Len(seq) + 1 - k]]

\* the pending continuations of the render started last
FreshPending == SelectSeq(timers, LAMBDA t : ~t.stale)

\* the last operation loaded a data array and its render has run to completion
LoadRendered == hist.loads /\ timers = <<>>

\* C1: once the render of a data array of length N loaded by setData or by
\* the data key of setOpts has run to completion, with no other operation in
\* between, the body table holds exactly N rows in the order of the array,
\* and the row at position k carries the record whose row-id is k.
C1_FullRender ==
    LoadRendered =>
        /\ Len(body) = Len(loaded)
        /\ \A k \in 1..Len(body) :
              /\ body[k] = k
              /\ _data[k].row.built
              /\ _data[k].data.rowID = k
              /\ _data[k].data.a = loaded[k].a

\* a load of 1200 records whose render took deferred batches and is complete
C1_Witness ==
    /\ LoadRendered
    /\ step = "timer"
    /\ Len(loaded) = 1200
    /\ Len(body) = 1200

Ordered(arr, sortFunc, column) ==
    \A k \in 1..(Len(arr) - 1) :
        Compare(sortFunc, column, arr[k].data, arr[k + 1].data) <= 0

\* no two entries of the array compare equal under the comparator
NoTies(arr, sortFunc, column) ==
    \A k, l \in 1..Len(arr) :
        k # l => Compare(sortFunc, column, arr[k].data, arr[l].data) # 0

\* the header table has a th for the column
HasHeaderCell(column) == \E j \in 1..Len(ths) : ths[j].name = column

\* the step is a call of sortOnColumn that returned
SortStep == step' = "op" /\ hist'.op = "sortOnColumn" /\ err' = "none"

\* C3 (as stated): the second of two calls sortOnColumn(c, cmp) in a row
\* leaves the data in the exact reverse of the sequence the first call
\* produced, for every data set, also one with values that compare equal.
C3_ExactReverse ==
    [][(SortStep /\ hist'.again) =>
           RowIDs(_data') = Reverse(RowIDs(_data))]_vars

\* C3 (amended): a call for a column not marked ascending leaves the data in
\* ascending order per cmp, a call for a column marked ascending leaves it in
\* descending order per cmp; the second of two calls in a row for a column
\* that has a header cell is of the second kind, and its result is the exact
\* reverse of the first call's when no two records compare equal under cmp.
C3_Toggle ==
    [][SortStep =>
          LET cmp == Comparator(hist'.mode, FALSE)
              c == hist'.column
          IN /\ ~hist'.descend => Ordered(_data', cmp, c)
             /\ hist'.descend => Ordered(_data', reverseSort(cmp), c)
             /\ (hist'.again /\ HasHeaderCell(c)) => hist'.descend
             /\ (hist'.again /\ HasHeaderCell(c) /\ NoTies(_data, cmp, c)) =>
                   RowIDs(_data') = Reverse(RowIDs(_data))]_vars

\* the second of two calls for column a with stringSort, on two distinct values
C3_Witness ==
    /\ step = "op"
    /\ hist.op = "sortOnColumn"
    /\ hist.again
    /\ hist.descend
    /\ hist.column = "a"
    /\ hist.mode = "stringSort"
    /\ Len(_data) = 2
    /\ _data[1].data.a = "a"
    /\ _data[2].data.a = "B"

\* C4: the row-ids the table holds are exactly 1..N, each once, N the length
\* of the array loaded last: a load numbers the records by position from 1,
\* and a sort or a rebuild leaves every record its row-id.
C4_RowIDs ==
    "_data" \notin undef =>
        /\ Len(_data) = Len(loaded)
        /\ {_data[k].data.rowID : k \in 1..Len(_data)} = 1..Len(loaded)
        /\ \A k \in 1..Len(_data) :
              /\ _data[k].data.rowID \in 1..Len(loaded)
              /\ _data[k].data.a = loaded[_data[k].data.rowID].a
        /\ (step = "op" /\ hist.loads) =>
              \A k \in 1..Len(_data) : _data[k].data.rowID = k

\* a sort that moved the record loaded second to the front
C4_Witness ==
    /\ step = "op"
    /\ hist.op = "sortOnColumn"
    /\ err = "none"
    /\ RowIDs(_data) = <<2, 1>>
    /\ loaded[1].a # loaded[2].a

\* the number of tr elements in the container that carry the class selected
SelectedInContainer ==
    IF ~InPage(Cur) THEN 0
    ELSE Cardinality({p \in 1..Len(body) : _data[body[p]].row.selected})
         + Cardinality({c \in 1..Len(clones) : clones[c].selected})

\* C5: at most one row element inside the container carries the selected
\* marker, and right after a click on a row that row is the marked one.
C5_OneSelected ==
    /\ SelectedInContainer <= 1
    /\ (step = "event" /\ hist.op = "click") =>
          /\ _data[hist.row].row.selected
          /\ SelectedInContainer = 1

\* two rows in the container carry the marker
C5_TwoSelected == SelectedInContainer >= 2

\* C6: a click on the button, toggle button or link a generator put in a row
\* invokes the click callback of that generator and does not invoke the
\* row-level click callback.
C6_CellClick ==
    (step = "event" /\ hist.op = "innerClick") =>
        /\ \E i \in 1..Len(invoked) : invoked[i] = ColumnCallback(hist.generator)
        /\ \A i \in 1..Len(invoked) : invoked[i] # RowCallback("click")

\* a click on a generated button that invoked no callback at all
C6_NoCallback ==
    /\ step = "event"
    /\ hist.op = "innerClick"
    /\ invoked = <<>>

\* C7: setElement(target) raises an error when the target resolves to
\* nothing, and does not leave the table bound to an empty collection.
C7_BadTarget ==
    (step = "op" /\ hist.op = "setElement" /\ Resolve(hist.target) = {}) =>
        /\ err = "Error"
        /\ _element # {}

\* setElement returned normally with the table bound to an empty collection
C7_BoundToNothing ==
    /\ step = "op"
    /\ hist.op = "setElement"
    /\ hist.target = "#missing"
    /\ err = "none"
    /\ _element = {}

\* the body rows that were not built from the current header list
StaleRows ==
    {p \in 1..Len(body) : _data[body[p]].row.cells # NewRow(_headers).cells}

\* C8: after an operation that replaces the headers, and the rebuild it runs,
\* every row in the body has been built from the current header list, a cell
\* per current column in header order.
C8_RowsFollowHeaders ==
    (step = "op" /\ hist.reheads /\ timers = <<>>) => StaleRows = {}

\* setHeaders left rows in the body that were built for the earlier headers
C8_StaleRows ==
    /\ step = "op"
    /\ hist.op = "setHeaders"
    /\ StaleRows # {}

\* C9: is.Function returns false, and does not throw, when an argument is not
\* callable (null and undefined included), and returns true only when every
\* argument is callable.
C9_IsFunction ==
    isResult # "none" =>
        /\ (\E i \in 1..Len(isArgs) : ~isArgs[i].callable) => isResult = "false"
        /\ isResult = "true" => \A i \in 1..Len(isArgs) : isArgs[i].callable

\* is.Function( null ) threw
C9_Throws ==
    /\ Len(isArgs) = 1
    /\ isArgs[1].name = "null"
    /\ isResult = "TypeError"

\* C10: a continuation of an earlier render that runs after setData,
\* setHeaders, rebuild or sortOnColumn completes without raising an error.
C10_StaleContinuation == step = "stale timer" => err = "none"

\* a continuation of an earlier render raised a TypeError
C10_StaleThrows ==
    /\ step = "stale timer"
    /\ err = "TypeError"

\* C11: the rows of the body table are at every batch boundary a prefix of
\* the current data sequence, each row once and in the current order, and
\* once no continuation is pending they are all the rows of the current data.
C11_BodyIsPrefix ==
    "_bodyTable" \notin undef =>
        /\ Len(body) <= Len(_data)
        /\ \A p \in 1..Len(body) : body[p] = p
        /\ timers = <<>> => Len(body) = Len(_data)

\* after a continuation of an earlier render ran, the body holds a row at a
\* position that is not its position in the data
C11_OutOfOrder ==
    /\ step = "stale timer"
    /\ err = "none"
    /\ \E p \in 1..Len(body) : body[p] # p

\* C12: after every completed render, whatever the length of the data, the
\* tbody of the header table holds exactly one cloned body row (next to the
\* one header row of its thead).
C12_OneClone ==
    ("_headerTable" \notin undef /\ timers = <<>>) => Len(clones) = 1

\* a completed render of 1200 rows, started with nothing pending, that left
\* three cloned rows in the header table
C12_ThreeClones ==
    /\ hist.clean
    /\ timers = <<>>
    /\ Len(_data) = 1200
    /\ Len(body) = 1200
    /\ Len(clones) = 3

\* the cells in the body that hold a generated button or link
GeneratedCells ==
    IF ~InPage(Cur) THEN {}
    ELSE UNION { { _data[body[p]].row.cells[j] :
                     j \in { i \in 1..Len(_data[body[p]].row.cells) :
                               InnerClass(_data[body[p]].row.cells[i].generator) # "" } } :
                 p \in 1..Len(body) }

\* C13: for each column a button, toggle-button or link generator has made
\* cells for, exactly one delegated click handler exists, bound by that
\* generator, so a click on a generated element invokes the generator's
\* callback exactly once.
C13_OneHandler ==
    /\ \A cell \in GeneratedCells :
          /\ Len(Matching(Cur, cell)) = 1
          /\ Matching(Cur, cell)[1].generator = cell.generator
    /\ (step = "event" /\ hist.op = "innerClick") =>
          invoked = <<ColumnCallback(hist.generator)>>

\* the body shows a generated button or link whose column has no handler
C13_NoHandler == \E cell \in GeneratedCells : Matching(Cur, cell) = <<>>

\* the operations and the event that end in _onWindowResized
ResizingSteps == {"resize", "setOpts", "setData", "sortOnColumn"}

\* the height the body container is to get in a window of height win when
\* the table is pinned pin pixels from the bottom
PinnedHeight(win, pin) ==
    LET newHeight == win - ContainerTop - pin
    IN IF newHeight > MIN_TABLE_HEIGHT THEN newHeight ELSE MIN_TABLE_HEIGHT

\* C14: with pinToBottom set to a non-zero offset, a window resize, setOpts,
\* setData and sortOnColumn set the height of the body container to
\* max(110, window height - top of the container - pinToBottom) and raise no
\* error; with pinToBottom false they leave the height as it was.
C14_PinnedHeight ==
    [][hist'.op \in ResizingSteps =>
          /\ pinToBottom' # 0 => (err' = "none" /\ height' = PinnedHeight(hist'.win, pinToBottom'))
          /\ pinToBottom' = 0 => height' = height]_vars

\* a window resize of a pinned table raised a TypeError and set no height
C14_ResizeThrows ==
    /\ step = "event"
    /\ hist.op = "resize"
    /\ pinToBottom # 0
    /\ err = "TypeError"
    /\ height = 0

\* the call is for a derived method that overrides a method of the base and
\* mentions _super
IsUpCall ==
    /\ inhArgs # <<>>
    /\ inhArgs[1][inhArgs[3]] = "method"
    /\ inhArgs[2][inhArgs[3]] = "upcall"

\* C15: invoking a derived method that overrides a callable member of the
\* base and mentions the up-call binding, on an instance of the definition
\* inherit returned, runs the body with this._super bound to the base's member
\* of the same name, and afterwards this._super holds what it held before.
C15_SuperBound ==
    IsUpCall =>
        /\ inhResult = Observed("returned", BaseMember(inhArgs[3]), inhArgs[4])

\* an overriding method that mentions _super could not be invoked: inherit
\* was never defined
C15_NotDefined ==
    /\ IsUpCall
    /\ inhResult[1] = "ReferenceError"

=============================================================================
